---- MODULE Spec2Model ----
(***************************************************************************)
(* A model of website-next/src/components/Playground.tsx: the Playground   *)
(* editor host, the Layout wrapper and the styleNodeFromYogaNode tree      *)
(* flattener.                                                              *)
(*                                                                         *)
(* React elements are records [type, style, children].  `children` is the  *)
(* list of JSX children as written; PropsChildren gives the value React    *)
(* stores in props.children for that list.  Values that are not elements   *)
(* (text, booleans, null, arrays) use the same record shape with a type    *)
(* starting with "#".                                                      *)
(***************************************************************************)
EXTENDS Integers, Sequences, FiniteSets, TLC

\* ------------------------------------------------------------------ bounds

\* Largest number of values (elements, texts, arrays) in a generated tree.
MaxSize == 4

\* ------------------------------------------------------- element universe

\* class Node extends React.PureComponent<NodeProps> {}
Node == "Node"

\* Any other element type a snippet can produce (a host tag, a Fragment).
OtherType == "div"

TextType == "#text"
BoolType == "#bool"
NullType == "#null"
ArrayType == "#array"
UndefinedType == "#undefined"

NoStyle == [none |-> TRUE]

\* The style objects of the default snippet.
OuterStyle == [width |-> 350, height |-> 350, padding |-> 20]
InnerStyle == [flex |-> 1]

Styles == {OuterStyle, InnerStyle}

Elem(t, s, kids) == [type |-> t, style |-> s, children |-> kids]

NodeElem(s, kids) == Elem(Node, s, kids)
OtherElem(kids) == Elem(OtherType, NoStyle, kids)
ArrayOf(items) == Elem(ArrayType, NoStyle, items)
Text == Elem(TextType, NoStyle, <<>>)
BoolValue == Elem(BoolType, NoStyle, <<>>)
Null == Elem(NullType, NoStyle, <<>>)
Undefined == Elem(UndefinedType, NoStyle, <<>>)

\* React.isValidElement: an object made by JSX / createElement.
isValidElement(x) == x.type \in {Node, OtherType}

\* What React stores in props.children for a list of JSX children: nothing
\* for none, the child itself for one, an array for several.
PropsChildren(kids) ==
  IF Len(kids) = 0 THEN Undefined
  ELSE IF Len(kids) = 1 THEN kids[1]
  ELSE ArrayOf(kids)

RECURSIVE ChildrenLeaves(_)
RECURSIVE LeavesOfItems(_, _)
\* The arguments, in order, with which React.Children.forEach / count invoke
\* their callback on `children`: nothing for null or undefined at the top,
\* arrays are traversed (nested ones too), every other value is one call
\* (null, undefined and booleans inside an array are passed as null).
ChildrenLeaves(children) ==
  IF children.type \in {UndefinedType, NullType} THEN <<>>
  ELSE IF children.type = ArrayType THEN LeavesOfItems(children.children, 1)
  ELSE <<children>>

LeavesOfItems(items, i) ==
  IF i > Len(items) THEN <<>>
  ELSE LET it == items[i]
           head == IF it.type = ArrayType THEN LeavesOfItems(it.children, 1)
                   ELSE IF it.type \in {UndefinedType, NullType, BoolType}
                        THEN <<Null>>
                   ELSE <<it>>
       IN head \o LeavesOfItems(items, i + 1)

\* --------------------------------------------------------- tree flattener

RECURSIVE styleNodeFromYogaNode(_)
RECURSIVE ForEachPush(_, _, _)

RECURSIVE ForEachPushAnyElement(_, _, _)
\* Mutant: the type test is dropped, every valid element is flattened.
ForEachPushAnyElement(leaves, i, children) ==
  IF i > Len(leaves) THEN children
  ELSE IF isValidElement(leaves[i])
       THEN ForEachPushAnyElement(leaves, i + 1,
              Append(children, styleNodeFromYogaNode(leaves[i])))
       ELSE ForEachPushAnyElement(leaves, i + 1, children)

RECURSIVE ForEachPushHoisting(_, _, _)
\* Mutant: an element of another type is walked through, so the Nodes below
\* it are hoisted into the output.
ForEachPushHoisting(leaves, i, children) ==
  IF i > Len(leaves) THEN children
  ELSE IF isValidElement(leaves[i]) /\ leaves[i].type = Node
       THEN ForEachPushHoisting(leaves, i + 1,
              Append(children, styleNodeFromYogaNode(leaves[i])))
       ELSE IF isValidElement(leaves[i])
       THEN ForEachPushHoisting(leaves, i + 1,
              ForEachPushHoisting(
                ChildrenLeaves(PropsChildren(leaves[i].children)), 1, children))
       ELSE ForEachPushHoisting(leaves, i + 1, children)

\* The forEach callback applied to leaves[i..]: `children` is the array
\* built so far.
ForEachPush(leaves, i, children) ==
  IF i > Len(leaves) THEN children
  ELSE IF isValidElement(leaves[i]) /\ leaves[i].type = Node
       THEN ForEachPush(leaves, i + 1,
              Append(children, styleNodeFromYogaNode(leaves[i])))
       ELSE ForEachPush(leaves, i + 1, children)

styleNodeFromYogaNode(yogaNode) ==
  [style |-> yogaNode.style,
   children |-> ForEachPush(
       ChildrenLeaves(PropsChildren(yogaNode.children)), 1, <<>>)]

\* ------------------------------------------------- generated input trees

RECURSIVE TreesOfSize(_)
RECURSIVE ForestsOfSize(_)

\* Every value made of exactly n values.
TreesOfSize(n) ==
  IF n < 1 THEN {}
  ELSE (IF n = 1 THEN {Text} ELSE {})
       \cup {NodeElem(s, f) : s \in Styles, f \in ForestsOfSize(n - 1)}
       \cup {OtherElem(f) : f \in ForestsOfSize(n - 1)}
       \cup {ArrayOf(f) : f \in ForestsOfSize(n - 1)}

\* Every list of values made of exactly k values in all.
ForestsOfSize(k) ==
  IF k = 0 THEN {<<>>}
  ELSE UNION {
         {<<t>> \o f : t \in TreesOfSize(j), f \in ForestsOfSize(k - j)}
         : j \in 1..k}

YogaNodes ==
  UNION {{NodeElem(s, f) : s \in Styles, f \in ForestsOfSize(k)}
         : k \in 0..(MaxSize - 1)}

\* ------------------------------------------------------- snippet catalogue

\* The text of a snippet stands for what evaluating it against the scope
\* {Layout, Node} yields.  defaultCode is the built-in snippet.
defaultCode == "default"

\* The value of a prop that was not supplied.
NotSupplied == "<undefined>"

Config(present, flag) == [present |-> present, useWebDefaults |-> flag]
NoConfig == Config(FALSE, "undefined")

LayoutElement(config, kids) ==
  [kind |-> "element", type |-> "Layout", config |-> config, children |-> kids]

Throws == [kind |-> "throw", type |-> "", config |-> NoConfig, children |-> <<>>]

OtherRoot ==
  [kind |-> "element", type |-> OtherType, config |-> NoConfig,
   children |-> <<>>]

\* What the evaluator makes of each snippet text.
Evaluated(text) ==
  CASE text = defaultCode ->
         \* <Layout config={{useWebDefaults: false}}>
         \*   <Node style={{width: 350, height: 350, padding: 20}}>
         \*     <Node style={{flex: 1}} /></Node></Layout>
         LayoutElement(Config(TRUE, "false"),
           <<NodeElem(OuterStyle, <<NodeElem(InnerStyle, <<>>)>>)>>)
    [] text = "mixed" ->
         \* <Layout config={{useWebDefaults: true}}>
         \*   <Node style={{flex: 1}}>
         \*     <div><Node .../></div> text <Node .../> {[<Node .../>]}
         \*   </Node></Layout>
         LayoutElement(Config(TRUE, "true"),
           <<NodeElem(InnerStyle,
               <<OtherElem(<<NodeElem(OuterStyle, <<>>)>>), Text,
                 NodeElem(OuterStyle, <<>>),
                 ArrayOf(<<NodeElem(InnerStyle, <<>>)>>)>>)>>)
    [] text = "bare" ->
         \* <Layout><Node style={{flex: 1}} /></Layout>
         LayoutElement(NoConfig, <<NodeElem(InnerStyle, <<>>)>>)
    [] text = "emptyConfig" ->
         \* <Layout config={{}}><Node style={{width: ...}} /></Layout>
         LayoutElement(Config(TRUE, "undefined"),
           <<NodeElem(OuterStyle, <<>>)>>)
    [] text = "two" ->
         \* <Layout><Node .../><Node .../></Layout>
         LayoutElement(NoConfig,
           <<NodeElem(InnerStyle, <<>>), NodeElem(InnerStyle, <<>>)>>)
    [] text = "none" ->
         \* <Layout></Layout>
         LayoutElement(NoConfig, <<>>)
    [] text = "div" ->
         \* <Layout><div><Node .../></div></Layout>
         LayoutElement(NoConfig, <<OtherElem(<<NodeElem(InnerStyle, <<>>)>>)>>)
    [] text = "text" ->
         \* <Layout>hello</Layout>
         LayoutElement(NoConfig, <<Text>>)
    [] text = "otherRoot" ->
         \* <div />
         OtherRoot
    [] OTHER ->
         \* "" and any text that does not parse or throws when run
         Throws

Snippets ==
  {"", defaultCode, "mixed", "bare", "emptyConfig", "two", "none", "div",
   "text", "otherRoot"}

\* ----------------------------------------------------------------- Layout

\* React.Children.count(children)
ChildrenCount(children) == Len(ChildrenLeaves(children))

\* React.Children.only(children) throws unless children is one element.
OnlyThrows(children) == ~isValidElement(children)

NoViewerProps == [rootNode |-> NoStyle, useWebDefaults |-> "none"]

\* config?.useWebDefaults
OptionalFlag(config) ==
  IF config.present THEN config.useWebDefaults ELSE "undefined"

\* Mutant: an absent flag is replaced by a default.
LayoutDefaultingFlag(kids, config) ==
  LET children == PropsChildren(kids) IN
  IF ChildrenCount(children) # 1
    THEN [result |-> "null", props |-> NoViewerProps]
  ELSE IF OnlyThrows(children)
    THEN [result |-> "throws", props |-> NoViewerProps]
  ELSE IF ~isValidElement(children) \/ children.type # Node
    THEN [result |-> "null", props |-> NoViewerProps]
  ELSE [result |-> "viewer",
        props |-> [rootNode |-> styleNodeFromYogaNode(children),
                   useWebDefaults |->
                     IF OptionalFlag(config) = "undefined" THEN "false"
                     ELSE OptionalFlag(config)]]

\* function Layout({children, config}): what it returns for the JSX children
\* `kids`: null, the viewer element with its props, or a thrown error.
Layout(kids, config) ==
  LET children == PropsChildren(kids) IN
  IF ChildrenCount(children) # 1
    THEN [result |-> "null", props |-> NoViewerProps]
  ELSE IF OnlyThrows(children)
    THEN [result |-> "throws", props |-> NoViewerProps]
  ELSE IF ~isValidElement(children) \/ children.type # Node
    THEN [result |-> "null", props |-> NoViewerProps]
  ELSE [result |-> "viewer",
        props |-> [rootNode |-> styleNodeFromYogaNode(children),
                   useWebDefaults |-> OptionalFlag(config)]]

\* ------------------------------------------------------------------ state

VARIABLES
  \* the flattener on its own
  yogaNode,       \* the argument of a styleNodeFromYogaNode call
  styleNode,      \* its result
  called,         \* whether the call has been made
  \* Playground: props
  code,           \* props.code, NotSupplied when absent
  autoFocus,      \* props.autoFocus (absent counts as FALSE)
  \* Playground: useState
  isLoaded,
  liveCode,
  scrollbarWidth,
  \* Playground: React bookkeeping
  phase,          \* "initial" (first render done, not committed), "mounted",
                  \* "unmounted"
  needsRender,    \* a state update of an effect waits for its re-render
  prevDeps,       \* <<isLoaded, autoFocus>> of the last auto-focus effect run
  \* the document
  paddingRight,   \* the toolbar's right padding in px, as last rendered
  editorText,     \* textContent of the editor's .prism-code region
  offsetWidth,    \* of the editorScroll container
  clientWidth,    \* of the editorScroll container
  codeElem,       \* the .prism-code region: "absent", "hidden" (clientHeight
                  \* 0) or "visible"
  selection,      \* whether window.getSelection() returns an object (it
                  \* does for the window of a document that is displayed)
  \* LiveProvider (the evaluator)
  evalQueue,      \* texts whose evaluation is scheduled, oldest first
  providerState,  \* its state: [kind, code]
  providerDirty,  \* the state changed and the preview was not re-rendered
  \* the preview
  shown,          \* "nothing", "placeholder" (Suspense fallback) or "viz"
  errorPane,      \* whether LiveError shows an error
  renderedCode,   \* the text whose evaluation the preview last rendered
  viewerProps,    \* the props of the mounted LazyYogaViewer element
  lazyStatus,     \* import('./YogaViewer'): "idle", "pending", "resolved"
  \* the copy action
  copyResult,
  \* history
  measuredAt,     \* <<offsetWidth, clientWidth>> read by the last layout effect
  focusCount,     \* select-and-collapse actions performed
  lastEntered,    \* the text of the last text change, NotSupplied if none
  propChanges,    \* re-renders by the parent so far
  evaluated,      \* a text was evaluated since the last text change
  visualized,     \* a tree was handed to the viewer since the last text change
  errorShown,     \* the error pane was updated since the last text change
  editedWhilePending  \* a text change came while the lazy load was pending

fvars == <<yogaNode, styleNode, called>>
props == <<code, autoFocus>>
rstate == <<isLoaded, liveCode, scrollbarWidth>>
react == <<phase, needsRender, prevDeps>>
dom == <<paddingRight, editorText, offsetWidth, clientWidth, codeElem,
         selection>>
provider == <<evalQueue, providerState, providerDirty>>
preview == <<shown, errorPane, renderedCode, viewerProps, lazyStatus>>
history == <<measuredAt, focusCount, lastEntered, propChanges, evaluated, visualized, errorShown, editedWhilePending>>
vars == <<fvars, props, rstate, react, dom, provider, preview, copyResult,
          history>>

\* ----------------------------------------------------------- more bounds

\* Re-renders by the parent (prop changes) in one behaviour.
MaxPropChanges == 2

\* The width of the scroll container and of a scrollbar, in px.
ContainerWidth == 100
ScrollbarPx == 15

\* The inner widths the container can have: with and without a scrollbar.
ClientWidths == {ContainerWidth - ScrollbarPx, ContainerWidth}

\* ------------------------------------------------------------ Playground

NoStyleNode == [style |-> NoStyle, children |-> <<>>]
NoCopy == [ok |-> FALSE, text |-> "<none>"]
Thrown == [ok |-> FALSE, text |-> "<thrown>"]
NullText == "<null>"

\* Mutant: a falsy code ("" too) falls back to the default snippet.
InitialLiveCodeOr(c) == IF c = NotSupplied \/ c = "" THEN defaultCode ELSE c

\* useState(code ?? defaultCode)
InitialLiveCode(c) == IF c = NotSupplied THEN defaultCode ELSE c

\* Mutant: the operands are swapped.
MeasureSwapped(ow, cw) == cw - ow

\* editorScrollRef.current.offsetWidth - editorScrollRef.current.clientWidth
Measure(ow, cw) == ow - cw

\* Mutant: the effect body runs after every render.
FocusEffectEveryRender(first, il, af, ce, sel) ==
  il /\ af /\ ce = "visible" /\ sel

\* The auto-focus effect of a render with isLoaded = il and autoFocus = af:
\* whether it selects and collapses.  It runs on the first render and when
\* a dependency differs from the previous run; codeElem?.clientHeight is
\* truthy only for a region that exists and has a height.
FocusEffect(first, il, af, ce, sel) ==
  /\ first \/ <<il, af>> # prevDeps
  /\ il /\ af
  /\ ce = "visible" /\ sel

\* Mutant: an empty text counts as no content.
GetCodeFalsy(host, ce, text) ==
  IF host = "null" \/ ce = "absent" \/ text = NullText \/ text = ""
  THEN Thrown ELSE [ok |-> TRUE, text |-> text]

\* getCode: nullthrows(playgroundRef.current?.querySelector('.prism-code')
\* ?.textContent)
GetCode(host, ce, text) ==
  LET elem == IF host = "null" THEN "undefined"
              ELSE IF ce = "absent" THEN "null" ELSE "element"
      content == IF elem \in {"undefined", "null"} THEN "undefined" ELSE text
  IN IF content \in {"undefined", NullText} THEN Thrown
     ELSE [ok |-> TRUE, text |-> content]

\* playgroundRef.current
PlaygroundRef == IF phase = "mounted" THEN "div" ELSE "null"

\* One render of Playground with liveCode = lc and autoFocus = af, its commit
\* and its effects, the container measuring ow and cw: the layout effect
\* (setScrollbarWidth), LivePreviewWrapper's mount effect on the first render
\* (setIsLoaded), the auto-focus effect, and LiveProvider's effect, which
\* runs because scope={{Layout, Node}} is a new object in every render.
RenderWith(lc, af, ow, cw, first) ==
  LET measured == Measure(ow, cw)
      loaded == IF first THEN TRUE ELSE isLoaded
  IN /\ liveCode' = lc
     /\ autoFocus' = af
     /\ offsetWidth' = ow
     /\ clientWidth' = cw
     /\ paddingRight' = scrollbarWidth
     /\ editorText' = lc
     /\ scrollbarWidth' = measured
     /\ measuredAt' = <<ow, cw>>
     /\ isLoaded' = loaded
     /\ needsRender' = (measured # scrollbarWidth \/ loaded # isLoaded)
     /\ prevDeps' = <<isLoaded, af>>
     /\ focusCount' = focusCount +
          (IF FocusEffect(first, isLoaded, af, codeElem, selection)
           THEN 1 ELSE 0)
     /\ evalQueue' = Append(evalQueue, lc)
     /\ phase' = "mounted"

\* Nothing of a render, an evaluation or a copy is under way: the next thing
\* to happen is an event.
Idle ==
  /\ ~needsRender
  /\ evalQueue = <<>>
  /\ ~providerDirty
  /\ copyResult = NoCopy

HostInit ==
  /\ code \in {NotSupplied, "", "bare"}
  /\ autoFocus \in BOOLEAN
  /\ isLoaded = FALSE
  /\ liveCode = InitialLiveCode(code)
  /\ scrollbarWidth = 0
  /\ phase = "initial"
  /\ needsRender = FALSE
  /\ prevDeps = <<FALSE, FALSE>>
  /\ paddingRight = 0
  /\ editorText = liveCode
  /\ offsetWidth = ContainerWidth
  /\ clientWidth \in ClientWidths
  /\ codeElem \in {"hidden", "visible"}
  /\ selection = TRUE
  /\ evalQueue = <<>>
  /\ providerState = [kind |-> "none", code |-> NotSupplied]
  /\ providerDirty = FALSE
  /\ shown = "nothing"
  /\ errorPane = FALSE
  /\ renderedCode = NotSupplied
  /\ viewerProps = NoViewerProps
  /\ lazyStatus = "idle"
  /\ copyResult = NoCopy
  /\ measuredAt = <<0, 0>>
  /\ focusCount = 0
  /\ lastEntered = NotSupplied
  /\ propChanges = 0
  /\ evaluated = FALSE
  /\ visualized = FALSE
  /\ errorShown = FALSE
  /\ editedWhilePending = FALSE

Init ==
  /\ HostInit
  /\ yogaNode = NodeElem(InnerStyle, <<>>)
  /\ styleNode = NoStyleNode
  /\ called = FALSE

\* The first commit: refs are attached and the effects of the first render
\* run.
Mount ==
  /\ phase = "initial"
  /\ RenderWith(liveCode, autoFocus, offsetWidth, clientWidth, TRUE)
  /\ UNCHANGED <<fvars, code, codeElem, selection, providerState,
                 providerDirty, preview, copyResult, lastEntered,
                 propChanges, evaluated, visualized, errorShown, editedWhilePending>>

\* The re-render an effect's state update asked for.
Render ==
  /\ phase = "mounted"
  /\ needsRender
  /\ RenderWith(liveCode, autoFocus, offsetWidth, clientWidth, FALSE)
  /\ UNCHANGED <<fvars, code, codeElem, selection, providerState,
                 providerDirty, preview, copyResult, lastEntered,
                 propChanges, evaluated, visualized, errorShown, editedWhilePending>>

\* LiveEditor's onChange={setLiveCode} with the text t, and the render it
\* causes; the new text may make the container's scrollbar come or go.
TextChange(t, cw) ==
  /\ phase = "mounted"
  /\ Idle
  /\ t # liveCode
  /\ RenderWith(t, autoFocus, offsetWidth, cw, FALSE)
  /\ lastEntered' = t
  /\ evaluated' = FALSE
  /\ visualized' = FALSE
  /\ errorShown' = FALSE
  /\ editedWhilePending' = (editedWhilePending \/ lazyStatus = "pending")
  /\ UNCHANGED <<fvars, code, codeElem, selection, providerState,
                 providerDirty, preview, copyResult, propChanges>>

\* The parent renders Playground again, with autoFocus = af.  (props.code
\* is read by the first render only.)
PropChange(af) ==
  /\ phase = "mounted"
  /\ Idle
  /\ propChanges < MaxPropChanges
  /\ propChanges' = propChanges + 1
  /\ RenderWith(liveCode, af, offsetWidth, clientWidth, FALSE)
  /\ UNCHANGED <<fvars, code, codeElem, selection, providerState, providerDirty,
                 preview, copyResult, lastEntered, evaluated, visualized, errorShown, editedWhilePending>>

\* The window is resized, or the editor is shown, hidden or replaced: the
\* document changes and nothing renders.
DomChange(cw, ce) ==
  /\ phase = "mounted"
  /\ Idle
  /\ <<cw, ce>> # <<clientWidth, codeElem>>
  /\ clientWidth' = cw
  /\ codeElem' = ce
  /\ UNCHANGED <<fvars, props, rstate, react, paddingRight, editorText,
                 offsetWidth, selection, provider, preview, copyResult,
                 history>>

\* LiveProvider's transpileAsync(code) runs: the text is evaluated and the
\* outcome becomes the provider's state.
Evaluate ==
  /\ phase = "mounted"
  /\ evalQueue # <<>>
  /\ LET text == Head(evalQueue) IN
       providerState' =
         [kind |-> IF Evaluated(text).kind = "throw" THEN "error"
                   ELSE "element",
          code |-> text]
  /\ evalQueue' = Tail(evalQueue)
  /\ providerDirty' = TRUE
  /\ evaluated' = TRUE
  /\ UNCHANGED <<fvars, props, rstate, react, dom, preview, copyResult,
                 measuredAt, focusCount, lastEntered,
                 propChanges, visualized, errorShown, editedWhilePending>>

\* Mutant: a render that suspends leaves the viewer's props as they were.
ViewerPropsKeptWhileSuspended(new) ==
  IF lazyStatus = "pending" THEN viewerProps ELSE new

\* The props of the LazyYogaViewer element after Layout returned it.
ViewerProps(new) == new

\* LivePreview and LiveError render the provider's state: an error goes to
\* the error pane, an element is rendered, and an error thrown while
\* rendering it is caught by the evaluator's boundary and goes to the error
\* pane too.
PreviewRender ==
  /\ phase = "mounted"
  /\ providerDirty
  /\ providerDirty' = FALSE
  /\ renderedCode' = providerState.code
  /\ LET el == Evaluated(providerState.code)
         out == IF providerState.kind = "error" THEN "error"
                ELSE IF el.type # "Layout" THEN "null"
                ELSE Layout(el.children, el.config).result
     IN /\ providerState' =
             IF out = "throws" THEN [providerState EXCEPT !.kind = "error"]
             ELSE providerState
        /\ errorPane' = (out \in {"error", "throws"})
        /\ errorShown' = (errorShown \/ out \in {"error", "throws"})
        /\ visualized' = (visualized \/ out = "viewer")
        /\ viewerProps' =
             IF out = "viewer"
             THEN ViewerProps(Layout(el.children, el.config).props)
             ELSE NoViewerProps
        /\ lazyStatus' =
             IF out = "viewer" /\ lazyStatus = "idle" THEN "pending"
             ELSE lazyStatus
        /\ shown' =
             IF out # "viewer" THEN "nothing"
             ELSE IF lazyStatus = "resolved" THEN "viz" ELSE "placeholder"
  /\ UNCHANGED <<fvars, props, rstate, react, dom, evalQueue, copyResult,
                 measuredAt, focusCount, lastEntered, propChanges, evaluated,
                 editedWhilePending>>

\* import('./YogaViewer') resolves: a suspended viewer renders with the
\* props of the element that is mounted now.
LazyResolve ==
  /\ lazyStatus = "pending"
  /\ lazyStatus' = "resolved"
  /\ shown' = IF shown = "placeholder" THEN "viz" ELSE shown
  /\ UNCHANGED <<fvars, props, rstate, react, dom, provider, errorPane,
                 renderedCode, viewerProps, copyResult, history>>

\* The toolbar's copy button calls getCode.
CopyCode ==
  /\ phase \in {"mounted", "unmounted"}
  /\ Idle
  /\ copyResult' = GetCode(PlaygroundRef, codeElem, editorText)
  /\ UNCHANGED <<fvars, props, rstate, react, dom, provider, preview,
                 history>>

\* The toolbar is done with the text, or with the error.
CopyDone ==
  /\ copyResult # NoCopy
  /\ copyResult' = NoCopy
  /\ UNCHANGED <<fvars, props, rstate, react, dom, provider, preview,
                 history>>

\* The page drops the widget.
Unmount ==
  /\ phase = "mounted"
  /\ Idle
  /\ phase' = "unmounted"
  /\ UNCHANGED <<fvars, props, rstate, needsRender, prevDeps, dom, provider,
                 preview, copyResult, history>>

Next ==
  \/ Mount
  \/ Render
  \/ \E t \in Snippets, cw \in ClientWidths : TextChange(t, cw)
  \/ \E af \in BOOLEAN : PropChange(af)
  \/ \E cw \in ClientWidths, ce \in {"absent", "hidden", "visible"} :
       DomChange(cw, ce)
  \/ Evaluate
  \/ PreviewRender
  \/ LazyResolve
  \/ CopyCode
  \/ CopyDone
  \/ Unmount

Spec == Init /\ [][Next]_vars

\* ------------------------------------------------- the flattener on its own

InitFlatten ==
  /\ yogaNode \in YogaNodes
  /\ styleNode = NoStyleNode
  /\ called = FALSE
  /\ HostInit
  /\ code = NotSupplied
  /\ autoFocus = FALSE
  /\ clientWidth = ContainerWidth
  /\ codeElem = "visible"

Flatten ==
  /\ ~called
  /\ styleNode' = styleNodeFromYogaNode(yogaNode)
  /\ called' = TRUE
  /\ UNCHANGED <<yogaNode, props, rstate, react, dom, provider, preview,
                 copyResult, history>>

NextFlatten == Flatten

SpecFlatten == InitFlatten /\ [][NextFlatten]_vars

\* ------------------------------------------------- claims: the flattener

IsNodeElement(c) == isValidElement(c) /\ c.type = Node

\* The children React.Children enumerates for a list of JSX children, and
\* those of them that are Node elements.
EnumeratedChildren(kids) == ChildrenLeaves(PropsChildren(kids))
Recognized(kids) == SelectSeq(EnumeratedChildren(kids), IsNodeElement)

\* C1: the children of the result are the flattened recognized children of
\* the input, one for one and in their order; unrecognized children leave no
\* entry; no children give no children.
C1_ChildrenAreRecognizedInOrder ==
  called =>
    LET rec == Recognized(yogaNode.children) IN
      /\ Len(styleNode.children) = Len(rec)
      /\ \A i \in 1..Len(rec) :
           styleNode.children[i] = styleNodeFromYogaNode(rec[i])
      /\ (yogaNode.children = <<>> => styleNode.children = <<>>)

\* A flattened input with two different recognized children and an
\* unrecognized one among them.
C1_Witness ==
  /\ called
  /\ Len(Recognized(yogaNode.children)) = 2
  /\ Recognized(yogaNode.children)[1] # Recognized(yogaNode.children)[2]
  /\ Len(EnumeratedChildren(yogaNode.children)) = 3
  /\ Len(styleNode.children) = 2

RECURSIVE IsProjection(_, _)
\* out is the projection of the Node element in: the same style, and one
\* child per recognized child of in, each its projection.
IsProjection(in, out) ==
  /\ DOMAIN out = {"style", "children"}
  /\ out.style = in.style
  /\ Len(out.children) = Len(Recognized(in.children))
  /\ \A i \in 1..Len(out.children) :
       IsProjection(Recognized(in.children)[i], out.children[i])

RECURSIVE CountNodes(_)
\* The number of nodes of a flattened tree.
CountNodes(out) ==
  LET RECURSIVE Sum(_)
      Sum(i) == IF i > Len(out.children) THEN 0
                ELSE CountNodes(out.children[i]) + Sum(i + 1)
  IN 1 + Sum(1)

RECURSIVE CountChained(_)
\* The number of Node elements of a tree that only Node elements lie above.
CountChained(in) ==
  LET rec == Recognized(in.children)
      RECURSIVE Sum(_)
      Sum(i) == IF i > Len(rec) THEN 0 ELSE CountChained(rec[i]) + Sum(i + 1)
  IN 1 + Sum(1)

RECURSIVE HasNodeBelow(_)
\* A Node element lies somewhere in or below the value v.
HasNodeBelow(v) ==
  \/ v.type = Node
  \/ \E i \in 1..Len(v.children) : HasNodeBelow(v.children[i])

\* C2: at every depth the result holds the style of the input Node at that
\* position and nothing else, and what lies below a child that is not a Node
\* is left out.
C2_StrictProjection ==
  called =>
    /\ IsProjection(yogaNode, styleNode)
    /\ CountNodes(styleNode) = CountChained(yogaNode)

\* A flattened input with a Node below an element of another type, beside a
\* recognized child.
C2_Witness ==
  /\ called
  /\ \E i \in 1..Len(yogaNode.children) :
       /\ yogaNode.children[i].type = OtherType
       /\ HasNodeBelow(yogaNode.children[i])
  /\ Len(styleNode.children) = 1
  /\ CountNodes(styleNode) = 2

\* --------------------------------------------------- claims: the preview

\* The preview shows what Layout made of the evaluation of renderedCode.
LayoutRendered ==
  /\ renderedCode # NotSupplied
  /\ Evaluated(renderedCode).kind = "element"
  /\ Evaluated(renderedCode).type = "Layout"

\* Layout received exactly one child, a Node element.
OneNodeChild(kids) ==
  /\ Len(kids) = 1
  /\ isValidElement(kids[1])
  /\ kids[1].type = Node

\* C3: Layout hands a tree to the viewer if and only if it received exactly
\* one child and that child is a Node element; otherwise it renders nothing,
\* makes no viewer call and surfaces no error.
C3_NothingUnlessOneNodeChild ==
  LayoutRendered =>
    LET valid == OneNodeChild(Evaluated(renderedCode).children) IN
      /\ valid <=> shown \in {"placeholder", "viz"}
      /\ valid <=> viewerProps # NoViewerProps
      /\ ~valid => (shown = "nothing" /\ ~errorPane)

\* C4: the viewer's rootNode is the flattener's result for the single child
\* and its useWebDefaults is config?.useWebDefaults, absent when the config
\* or the flag is absent.
C4_ViewerGetsTreeAndFlag ==
  viewerProps # NoViewerProps =>
    LET el == Evaluated(renderedCode) IN
      /\ LayoutRendered
      /\ viewerProps.rootNode = styleNodeFromYogaNode(el.children[1])
      /\ viewerProps.useWebDefaults =
           (IF el.config.present THEN el.config.useWebDefaults
            ELSE "undefined")

\* The viewer was handed a tree by a Layout without a config.
C4_Witness ==
  /\ viewerProps # NoViewerProps
  /\ ~Evaluated(renderedCode).config.present
  /\ viewerProps.useWebDefaults = "undefined"
  /\ shown = "viz"

\* Layout makes a viewer of the evaluation of text.
ValidLayout(text) ==
  /\ Evaluated(text).kind = "element"
  /\ Evaluated(text).type = "Layout"
  /\ OneNodeChild(Evaluated(text).children)

\* C5: a text change triggers exactly one re-evaluation, with one
\* visualization update if it succeeds and one error-pane update and no
\* visualization update if it throws, also when the host renders again for
\* its isLoaded or scrollbar-width state: once the new text has been
\* evaluated no further evaluation is scheduled.  (Stated for behaviours in
\* which the parent never re-renders the host.)
C5_OneEvaluationPerTextChange ==
  (lastEntered # NotSupplied /\ propChanges = 0) =>
    /\ evaluated => evalQueue = <<>>
    /\ (phase = "mounted" /\ Idle) =>
         /\ evaluated
         /\ visualized <=> ValidLayout(liveCode)
         /\ Evaluated(liveCode).kind = "throw" => (errorShown /\ ~visualized)

\* C9: while the lazy load is pending a valid Layout shows the placeholder
\* and no error, text changes and evaluations stay possible, and once the
\* load has resolved the viewer shows the tree of the current snippet.
C9_LazyLoadShowsCurrentTree ==
  /\ (lazyStatus # "resolved" /\ LayoutRendered /\ ValidLayout(renderedCode))
       => (shown = "placeholder" /\ ~errorPane)
  /\ (lazyStatus = "pending" /\ phase = "mounted" /\ Idle)
       => \A t \in Snippets \ {liveCode} : ENABLED TextChange(t, clientWidth)
  /\ (lazyStatus = "pending" /\ phase = "mounted" /\ evalQueue # <<>>)
       => ENABLED Evaluate
  /\ shown = "viz" => lazyStatus = "resolved"
  /\ (lazyStatus = "resolved" /\ phase = "mounted" /\ Idle
      /\ ValidLayout(liveCode))
       => /\ shown = "viz"
          /\ renderedCode = liveCode
          /\ viewerProps.rootNode =
               styleNodeFromYogaNode(Evaluated(liveCode).children[1])

\* The load resolved after a text change that came while it was pending, and
\* the viewer shows the tree of the text entered last.
C9_Witness ==
  /\ lazyStatus = "resolved"
  /\ editedWhilePending
  /\ phase = "mounted" /\ Idle
  /\ shown = "viz"
  /\ liveCode = lastEntered
  /\ viewerProps.rootNode =
       styleNodeFromYogaNode(Evaluated(liveCode).children[1])

\* ----------------------------------------------------- claims: the host

\* C6: the held text starts as the supplied code, or the default snippet
\* when none is supplied, and is the text entered last after any text
\* changes; errors and validation failures leave it alone, and the mounted
\* host accepts a next edit whenever it has settled.
C6_HeldTextIsLastEntered ==
  /\ liveCode =
       (IF lastEntered # NotSupplied THEN lastEntered
        ELSE IF code = NotSupplied THEN defaultCode ELSE code)
  /\ (phase = "mounted" /\ Idle)
       => \E t \in Snippets : ENABLED TextChange(t, clientWidth)

\* The error pane shows the error of the text entered last, and the text is
\* held.
C6_Witness ==
  /\ phase = "mounted" /\ Idle
  /\ lastEntered = "text"
  /\ errorPane
  /\ liveCode = "text"

\* C7 as claimed: the select-and-collapse action is performed exactly once
\* if auto-focus was requested, never more.
C7_FocusedExactlyOnce ==
  /\ focusCount <= 1
  /\ (phase = "mounted" /\ Idle /\ autoFocus /\ propChanges = 0)
       => focusCount = 1

\* C7 as amended: the action is performed only by a re-render in which
\* isLoaded and autoFocus are both true and one of them differs from the
\* effect's previous run, and only when the code region has a height and a
\* selection object exists; it is performed once by such a render.
C7_FocusOnlyWhenDepsChange ==
  [][focusCount' # focusCount =>
       /\ focusCount' = focusCount + 1
       /\ phase = "mounted"
       /\ isLoaded /\ autoFocus'
       /\ prevDeps # <<isLoaded, autoFocus'>>
       /\ codeElem = "visible" /\ selection]_vars

\* The action was performed a second time.
C7_Witness == focusCount = 2

\* C8: after a render the scrollbar width is the container's outer minus its
\* inner width as read by that render's layout effect, never negative, and
\* the toolbar's right padding once no re-render is waiting; before the
\* first commit, when there is no container, it is 0.
C8_ScrollbarWidthIsMeasured ==
  /\ phase = "initial" => (scrollbarWidth = 0 /\ paddingRight = 0)
  /\ phase # "initial" =>
       /\ scrollbarWidth = measuredAt[1] - measuredAt[2]
       /\ scrollbarWidth >= 0
       /\ ~needsRender => paddingRight = scrollbarWidth

\* A text change brought a scrollbar, and the padding follows.
C8_Witness ==
  /\ phase = "mounted" /\ Idle
  /\ lastEntered # NotSupplied
  /\ clientWidth < offsetWidth
  /\ scrollbarWidth = offsetWidth - clientWidth
  /\ paddingRight = scrollbarWidth

\* C10: getCode returns the text of the code region when the host and the
\* region exist, an empty text too, and fails exactly when the host, the
\* region or the text is absent; a copy changes none of liveCode, isLoaded
\* and scrollbarWidth.
C10_CopyReturnsTextOrFails ==
  [][(copyResult = NoCopy /\ copyResult' # NoCopy) =>
       /\ IF phase # "mounted" \/ codeElem = "absent" \/ editorText = NullText
          THEN copyResult' = Thrown
          ELSE copyResult' = [ok |-> TRUE, text |-> editorText]
       /\ UNCHANGED <<liveCode, isLoaded, scrollbarWidth>>]_vars

\* A copy returned the empty text of an editor that was emptied.
C10_Witness ==
  /\ copyResult = [ok |-> TRUE, text |-> ""]
  /\ lastEntered = ""

====
